---- MODULE Spec2Model ----
(***************************************************************************)
(* A model of audio-probe (src/src/main.rs).                               *)
(*                                                                         *)
(*   Spec           the batch scheduler: AudioProbe::process_files driving *)
(*                  analyze_file futures through buffer_unordered and the  *)
(*                  shared tokio Semaphore, next to direct analyze_file    *)
(*                  calls made on clones of the same probe.                *)
(*   FairSpec       Spec, every started step being eventually run.         *)
(*   SpecResolve    one analyze_file call followed through its data: the   *)
(*                  existence check, ffprobe's output or the estimate,     *)
(*                  the default metadata.                                  *)
(*   SpecBackFill   the default metadata block of analyze_file applied     *)
(*                  to every tag mapping, and applied again.               *)
(*   SpecProbe      one analyze_file call whose ffprobe output has any     *)
(*                  sequence of audio, video and data streams.             *)
(*   SpecMain       main: the PATH loop, process_files, the aggregation.   *)
(*   SpecAggregate  the aggregation of main over every Vec of results.     *)
(***************************************************************************)
EXTENDS Integers, Sequences, FiniteSets, TLC

\* ------------------------------------------------------------------ bounds
MaxN == 3        \* longest target list handed to process_files
MaxC == 2        \* largest max_concurrent (0 is accepted by -j too)
MaxDirect == 1   \* direct analyze_file calls made on clones of the probe
MaxArgs == 2     \* most PATH arguments on the command line (at most MaxN)
MaxOutcomes == 5 \* longest Vec of results handed to the aggregation alone
MaxStreams == 3  \* most streams in one ffprobe output followed stream by stream

VARIABLES
    \* --- batch scheduler ---
    n,            \* paths.len() of the process_files call
    maxc,         \* AudioProbe.max_concurrent
    use_ffprobe,  \* AudioProbe.use_ffprobe
    permits,      \* permits available in AudioProbe.semaphore
    pc,           \* position of every analyze_file future / call
    next,         \* next element stream::iter(paths) will yield
    streamDone,   \* the fused stream has reported None to buffer_unordered
    results,      \* the Vec being collected, in completion order
    progress,     \* progress_bar position
    pfpc,         \* position of process_files itself
    \* --- one analyze_file call, followed through its data ---
    r_pc,         \* position of the call
    r_path,       \* its path argument
    r_exists,     \* whether the path exists when path.exists() is evaluated
    r_stat,       \* what std::fs::metadata gave: Some(len) or none on Err
    r_tool,       \* what the ffprobe subprocess did
    r_info,       \* audio_info before the default metadata block
    r_result,     \* the Result returned
    \* --- main ---
    m_pc,         \* position of main
    m_args,       \* args.paths
    m_recursive,  \* args.recursive
    m_idx,        \* index of the "for path in &args.paths" loop
    all_files,    \* the Vec of files found so far
    m_outcomes,   \* the Vec process_files returned to main
    successful,   \* Vec<AudioInfo>
    errors,       \* Vec<AudioProbeError>
    total_duration,
    total_size,
    summary       \* the "summary" object of the report

schedVars == <<n, maxc, use_ffprobe, permits, pc, next, streamDone, results,
               progress, pfpc>>

resolveVars == <<r_pc, r_path, r_exists, r_stat, r_tool, r_info, r_result>>

mainVars == <<m_pc, m_args, m_recursive, m_idx, all_files, m_outcomes, successful,
              errors, total_duration, total_size, summary>>

vars == <<schedVars, resolveVars, mainVars>>

\* ------------------------------------------------------------ data types
\* A String is a sequence of chunks; a string that the code converts or
\* parses character by character is written one character per chunk.
\* Option<T> is [some, v].
NoStr == [some |-> FALSE, v |-> <<>>]
SomeStr(s) == [some |-> TRUE, v |-> s]
NoInt == [some |-> FALSE, v |-> 0]
SomeInt(i) == [some |-> TRUE, v |-> i]

\* f64 values are kept as exact fractions num/den with den > 0.
F64(i) == [num |-> i, den |-> 1]
F64Div(a, b) == [num |-> a, den |-> b]
F64Eq(a, b) == a.num * b.den = b.num * a.den
F64Add(a, b) == [num |-> a.num * b.den + b.num * a.den, den |-> a.den * b.den]
F64NonNeg(a) == a.num >= 0

\* A u64 is kept as hi * 2^61 + lo, hi being its three top bits (0..7) and
\* lo the 61 bits below them; every lo of this model is below 2^28.
U64(hi, lo) == [hi |-> hi, lo |-> lo]
U64Of(i) == U64(0, i)
NoU64 == [some |-> FALSE, v |-> U64Of(0)]
SomeU64(x) == [some |-> TRUE, v |-> x]
\* x * 8 in u64 arithmetic: the three top bits leave the word (a build with
\* overflow checks panics there instead of going on with the wrapped value).
WrappingMul8(x) == U64(0, x.lo * 8)
\* "as f64" of a u64 below 2^61.
U64AsF64(x) == x.lo

UpperLetters ==
    <<"A", "B", "C", "D", "E", "F", "G", "H", "I", "J", "K", "L", "M",
      "N", "O", "P", "Q", "R", "S", "T", "U", "V", "W", "X", "Y", "Z">>
LowerLetters ==
    <<"a", "b", "c", "d", "e", "f", "g", "h", "i", "j", "k", "l", "m",
      "n", "o", "p", "q", "r", "s", "t", "u", "v", "w", "x", "y", "z">>

IndexOf(c, letters) ==
    IF \E i \in 1..Len(letters) : letters[i] = c
    THEN CHOOSE i \in 1..Len(letters) : letters[i] = c
    ELSE 0

\* str::to_lowercase / str::to_uppercase, character by character.
to_lowercase(s) ==
    [i \in 1..Len(s) |->
        IF IndexOf(s[i], UpperLetters) > 0
        THEN LowerLetters[IndexOf(s[i], UpperLetters)] ELSE s[i]]
to_uppercase(s) ==
    [i \in 1..Len(s) |->
        IF IndexOf(s[i], LowerLetters) > 0
        THEN UpperLetters[IndexOf(s[i], LowerLetters)] ELSE s[i]]

Digits == <<"0", "1", "2", "3", "4", "5", "6", "7", "8", "9">>
IsDigit(c) == IndexOf(c, Digits) > 0
DigitVal(c) == IndexOf(c, Digits) - 1

RECURSIVE DigitsValue(_)
DigitsValue(s) ==
    IF s = <<>> THEN 0
    ELSE 10 * DigitsValue(SubSeq(s, 1, Len(s) - 1)) + DigitVal(s[Len(s)])

\* The grammar str::parse shares for i32, i64 and f64 on the strings of the
\* model: an optional sign, then one or more digits; anything else is Err
\* (some = FALSE). No string of the model is long enough to be out of range,
\* and none holds a fraction, an exponent, inf or nan.
ParseInt(s) ==
    IF s = <<>> THEN NoInt
    ELSE LET signed == s[1] \in {"-", "+"}
             body == IF signed THEN Tail(s) ELSE s
             val == IF s[1] = "-" THEN 0 - DigitsValue(body) ELSE DigitsValue(body)
         IN IF body = <<>> \/ \E i \in 1..Len(body) : ~IsDigit(body[i])
            THEN NoInt
            ELSE SomeInt(val)

ParseI64(s) == ParseInt(s)
ParseI32(s) == ParseInt(s)
ParseF64(s) == LET r == ParseInt(s) IN [some |-> r.some, v |-> F64(r.v)]

unwrap_or(opt, default) == IF opt.some THEN opt.v ELSE default

\* Path::file_name of a one-component path: none for "." and "..".
file_name(path) ==
    IF path = <<>> \/ path = <<".">> \/ path = <<".", ".">> THEN NoStr ELSE SomeStr(path)

\* Index of the last '.' of a file name that splits it (a leading dot does
\* not), or 0.
LastDot(name) ==
    LET dots == {i \in 2..Len(name) : name[i] = "."}
    IN IF dots = {} THEN 0 ELSE CHOOSE i \in dots : \A j \in dots : j <= i

\* Path::file_stem and Path::extension.
file_stem(path) ==
    LET f == file_name(path)
    IN IF ~f.some THEN NoStr
       ELSE IF LastDot(f.v) = 0 THEN SomeStr(f.v)
       ELSE SomeStr(SubSeq(f.v, 1, LastDot(f.v) - 1))
extension(path) ==
    LET f == file_name(path)
    IN IF ~f.some THEN NoStr
       ELSE IF LastDot(f.v) = 0 THEN NoStr
       ELSE SomeStr(SubSeq(f.v, LastDot(f.v) + 1, Len(f.v)))

\* HashMap<String, String> as a function; insert overwrites.
EmptyMap == [k \in {} |-> <<>>]
HasKey(m, k) == k \in DOMAIN m
Insert(m, k, v) == [x \in DOMAIN m \cup {k} |-> IF x = k THEN v ELSE m[x]]

\* ------------------------------------------------------ metadata resolver
Title == <<"t", "i", "t", "l", "e">>
Artist == <<"a", "r", "t", "i", "s", "t">>
Album == <<"a", "l", "b", "u", "m">>

\* AudioInfo::new; processing_time_ms, a wall-clock reading, is left out.
AudioInfoNew(path) ==
    [file_path |-> path, file_size |-> U64Of(0), duration_seconds |-> F64(0),
     bit_rate |-> 0, sample_rate |-> 0, channels |-> 0,
     codec_name |-> <<>>, codec_long_name |-> <<>>,
     format_name |-> <<>>, format_long_name |-> <<>>,
     has_video |-> FALSE, metadata |-> EmptyMap]

\* if let Ok(metadata) = std::fs::metadata(path) { file_size = metadata.len() }
WithFileSize(info, stat) ==
    IF stat.some THEN [info EXCEPT !.file_size = stat.v] ELSE info

\* for (key, value) in tags { metadata.insert(key.to_lowercase(), value) },
\* tags being the pairs in the order the HashMap yields them.
RECURSIVE InsertTags(_, _)
InsertTags(m, tags) ==
    IF tags = <<>> THEN m
    ELSE InsertTags(Insert(m, to_lowercase(tags[1][1]), tags[1][2]), Tail(tags))

\* The "if let Some(format) = probe_data.format" block.
ContainerBitRate(format) ==
    IF format.bit_rate.some THEN unwrap_or(ParseI64(format.bit_rate.v), 0) ELSE 0

ApplyFormat(info, format) ==
    IF ~format.some THEN info
    ELSE [info EXCEPT
            !.format_name = format.format_name,
            !.format_long_name = format.format_long_name,
            !.duration_seconds =
                IF format.duration.some
                THEN unwrap_or(ParseF64(format.duration.v), F64(0)) ELSE @,
            !.bit_rate = IF format.bit_rate.some THEN ContainerBitRate(format) ELSE @,
            !.metadata = IF format.tags.some THEN InsertTags(@, format.tags.v) ELSE @]

\* The loop over probe_data.streams: the first audio stream is kept, a
\* video stream that does not take the first branch sets has_video.
RECURSIVE SelectStreamMutLastAudio(_, _)
RECURSIVE SelectStream(_, _)
SelectStreamMutLastAudio(acc, streams) ==
    IF streams = <<>> THEN acc
    ELSE LET st == streams[1]
         IN IF st.codec_type = <<"audio">>
            THEN SelectStreamMutLastAudio(
                    [acc EXCEPT !.audio_stream = [some |-> TRUE, v |-> st]], Tail(streams))
            ELSE IF st.codec_type = <<"video">>
            THEN SelectStreamMutLastAudio([acc EXCEPT !.has_video = TRUE], Tail(streams))
            ELSE SelectStreamMutLastAudio(acc, Tail(streams))
SelectStream(acc, streams) ==
    IF streams = <<>> THEN acc
    ELSE LET st == streams[1]
         IN IF st.codec_type = <<"audio">> /\ ~acc.audio_stream.some
            THEN SelectStream([acc EXCEPT !.audio_stream = [some |-> TRUE, v |-> st]],
                              Tail(streams))
            ELSE IF st.codec_type = <<"video">>
            THEN SelectStream([acc EXCEPT !.has_video = TRUE], Tail(streams))
            ELSE SelectStream(acc, Tail(streams))

NoStream ==
    [some |-> FALSE,
     v |-> [codec_type |-> <<>>, codec_name |-> NoStr, codec_long_name |-> NoStr,
            sample_rate |-> NoStr, channels |-> NoInt, bit_rate |-> NoStr]]

\* if stream_bit_rate > 0 && audio_info.bit_rate == 0 { bit_rate = stream_bit_rate }
StreamBitRateMutAlways(current, stream_bit_rate) ==
    IF stream_bit_rate.some
    THEN (IF ParseI64(stream_bit_rate.v).some /\ ParseI64(stream_bit_rate.v).v > 0
          THEN ParseI64(stream_bit_rate.v).v ELSE current)
    ELSE current
StreamBitRate(current, stream_bit_rate) ==
    IF stream_bit_rate.some
    THEN (IF /\ ParseI64(stream_bit_rate.v).some
             /\ ParseI64(stream_bit_rate.v).v > 0
             /\ current = 0
          THEN ParseI64(stream_bit_rate.v).v ELSE current)
    ELSE current

\* The "if let Some(stream) = audio_stream" block.
ApplyStream(info, stream) ==
    [info EXCEPT
        !.codec_name = IF stream.codec_name.some THEN stream.codec_name.v ELSE @,
        !.codec_long_name =
            IF stream.codec_long_name.some THEN stream.codec_long_name.v ELSE @,
        !.sample_rate =
            IF stream.sample_rate.some
            THEN unwrap_or(ParseI32(stream.sample_rate.v), 0) ELSE @,
        !.channels = IF stream.channels.some THEN stream.channels.v ELSE @,
        !.bit_rate = StreamBitRate(@, stream.bit_rate)]

\* analyze_with_ffprobe: Err when the subprocess cannot be executed, exits
\* non-zero or prints what serde_json cannot parse; else the record.
analyze_with_ffprobe(path, stat, tool) ==
    IF tool.kind # "ok" THEN [ok |-> FALSE, info |-> AudioInfoNew(path)]
    ELSE LET base == ApplyFormat(WithFileSize(AudioInfoNew(path), stat), tool.doc.format)
             sel == SelectStream([audio_stream |-> NoStream, has_video |-> FALSE],
                                 tool.doc.streams)
             seen == [base EXCEPT !.has_video = sel.has_video]
         IN [ok |-> TRUE,
             info |-> IF sel.audio_stream.some
                      THEN ApplyStream(seen, sel.audio_stream.v) ELSE seen]

\* The extension table of fallback_analysis.
FallbackTable(info, ext_str) ==
    LET low == to_lowercase(ext_str)
        named == [info EXCEPT !.format_name = low, !.codec_name = low]
    IN  CASE low = <<"m", "p", "3">> ->
                [named EXCEPT
                    !.codec_long_name = <<"MP3 (MPEG audio layer 3)">>,
                    !.format_long_name = <<"MP2/3 (MPEG audio layer 2/3)">>,
                    !.sample_rate = 44100, !.channels = 2, !.bit_rate = 320000]
          [] low = <<"w", "a", "v">> ->
                [named EXCEPT
                    !.codec_name = <<"pcm_s16le">>,
                    !.codec_long_name = <<"PCM signed 16-bit little-endian">>,
                    !.format_long_name = <<"WAV / WAVE (Waveform Audio)">>,
                    !.sample_rate = 44100, !.channels = 2, !.bit_rate = 44100 * 2 * 16]
          [] low = <<"f", "l", "a", "c">> ->
                [named EXCEPT
                    !.codec_long_name = <<"FLAC (Free Lossless Audio Codec)">>,
                    !.format_long_name = <<"raw FLAC">>,
                    !.sample_rate = 44100, !.channels = 2]
          [] OTHER ->
                [named EXCEPT
                    !.codec_long_name = to_uppercase(ext_str) \o <<" audio">>,
                    !.format_long_name = to_uppercase(ext_str) \o <<" format">>,
                    !.sample_rate = 44100, !.channels = 2, !.bit_rate = 320000]

\* fallback_analysis: the table, then the duration estimate.
fallback_analysis(info, path) ==
    LET tabled == IF extension(path).some
                  THEN FallbackTable(info, extension(path).v) ELSE info
    IN [tabled EXCEPT !.duration_seconds =
            IF tabled.bit_rate > 0
            THEN F64Div(U64AsF64(WrappingMul8(tabled.file_size)), tabled.bit_rate)
            ELSE F64(300)]

\* The default metadata block of analyze_file.
BackFillMutOverwriteEmpty(metadata, path) ==
    LET absent(m, k) == ~HasKey(m, k) \/ m[k] = <<>>
        m1 == IF absent(metadata, Title) /\ file_stem(path).some
              THEN Insert(metadata, Title, file_stem(path).v) ELSE metadata
        m2 == IF absent(m1, Artist) THEN Insert(m1, Artist, <<"Unknown Artist">>) ELSE m1
    IN IF absent(m2, Album) THEN Insert(m2, Album, <<"Unknown Album">>) ELSE m2
BackFillMutOneDefault(metadata, path) ==
    IF ~HasKey(metadata, Title) /\ file_stem(path).some
    THEN Insert(metadata, Title, file_stem(path).v)
    ELSE IF ~HasKey(metadata, Artist)
    THEN Insert(metadata, Artist, <<"Unknown Artist">>)
    ELSE IF ~HasKey(metadata, Album)
    THEN Insert(metadata, Album, <<"Unknown Album">>)
    ELSE metadata
BackFill(metadata, path) ==
    LET m1 == IF ~HasKey(metadata, Title) /\ file_stem(path).some
              THEN Insert(metadata, Title, file_stem(path).v) ELSE metadata
        m2 == IF ~HasKey(m1, Artist) THEN Insert(m1, Artist, <<"Unknown Artist">>) ELSE m1
    IN IF ~HasKey(m2, Album) THEN Insert(m2, Album, <<"Unknown Album">>) ELSE m2

\* ------------------------------------------- inputs of the metadata resolver
Paths ==
    { <<"s", ".", "m", "p", "3">>, <<"A", ".", "W", "A", "V">>,
      <<"x", ".", "f", "l", "a", "c">>, <<"y", ".", "o", "g", "g">>,
      <<"n", "o", "e", "x", "t">>, <<".", ".">> }

\* std::fs::metadata: Err, or the length of the file: empty, 40000 bytes,
\* 2^61 bytes (a sparse file) and 2^61 + 40000 bytes.
Stats ==
    {NoU64, SomeU64(U64Of(0)), SomeU64(U64Of(40000)), SomeU64(U64(1, 0)),
     SomeU64(U64(1, 40000))}

\* Numeric strings of the tool's output: absent, unparsable, zero, positive,
\* negative.
DurationStrs == {NoStr, SomeStr(<<"-">>), SomeStr(<<"3">>), SomeStr(<<"-", "3">>)}
ContainerBitRates ==
    {NoStr, SomeStr(<<"-">>), SomeStr(<<"0">>), SomeStr(<<"3">>), SomeStr(<<"-", "3">>)}

NoTags == [some |-> FALSE, v |-> <<>>]
TagLists ==
    { NoTags,
      [some |-> TRUE, v |-> << <<<<"T", "I", "T", "L", "E">>, <<>>>>,
                               <<<<"g", "e", "n", "r", "e">>, <<"g">>>> >>],
      [some |-> TRUE, v |-> << <<<<"T", "i", "t", "l", "e">>, <<"T">>>>,
                               <<Artist, <<"A">>>>,
                               <<<<"A", "l", "b", "u", "m">>, <<>>>> >>],
      [some |-> TRUE, v |-> << <<<<"a", "r", "t", "i", "s", "t">>, <<"A">>>>,
                               <<<<"A", "R", "T", "I", "S", "T">>, <<"B">>>> >>] }

NoFormat ==
    [some |-> FALSE, format_name |-> <<>>, format_long_name |-> <<>>,
     duration |-> NoStr, bit_rate |-> NoStr, tags |-> NoTags]
Formats ==
    {NoFormat} \cup
    { [some |-> TRUE, format_name |-> <<"mp3">>,
       format_long_name |-> <<"MP2/3 (MPEG audio layer 2/3)">>,
       duration |-> d, bit_rate |-> b, tags |-> t] :
        d \in DurationStrs, b \in ContainerBitRates, t \in TagLists }

AudioStream(codec, rate, ch, br) ==
    [codec_type |-> <<"audio">>, codec_name |-> codec, codec_long_name |-> codec,
     sample_rate |-> rate, channels |-> ch, bit_rate |-> br]
Streams ==
    { AudioStream(NoStr, NoStr, NoInt, NoStr),
      AudioStream(SomeStr(<<"aac">>), SomeStr(<<"-">>), SomeInt(0), SomeStr(<<"-">>)),
      AudioStream(SomeStr(<<"aac">>), SomeStr(<<"0">>), SomeInt(1), SomeStr(<<"0">>)),
      AudioStream(SomeStr(<<"aac">>), SomeStr(<<"4", "4", "1", "0", "0">>), SomeInt(2),
                  SomeStr(<<"2">>)),
      AudioStream(SomeStr(<<"aac">>), SomeStr(<<"-", "1">>), SomeInt(-1),
                  SomeStr(<<"-", "2">>)),
      [codec_type |-> <<"video">>, codec_name |-> SomeStr(<<"h264">>),
       codec_long_name |-> SomeStr(<<"h264">>), sample_rate |-> NoStr,
       channels |-> NoInt, bit_rate |-> SomeStr(<<"2">>)],
      [codec_type |-> <<"data">>, codec_name |-> NoStr, codec_long_name |-> NoStr,
       sample_rate |-> NoStr, channels |-> NoInt, bit_rate |-> NoStr] }

NoDoc == [format |-> NoFormat, streams |-> <<>>]
ResolveDocs ==
    { [format |-> f, streams |-> ss] :
        f \in Formats, ss \in {<<>>} \cup {<<st>> : st \in Streams} }

\* What running ffprobe on the path did.
NoTool == [kind |-> "none", doc |-> NoDoc]
ToolOutcomes ==
    { [kind |-> k, doc |-> NoDoc] : k \in {"exec_failed", "exit_nonzero", "parse_failed"} }
    \cup { [kind |-> "ok", doc |-> d] : d \in ResolveDocs }

\* ------------------------------------------------------- batch scheduler
\* Targets of the process_files call are numbered 1..n in submission order;
\* direct analyze_file calls on a clone are numbered -1, -2, ...
RunTasks == 1..n
DirectTasks == {-d : d \in 1..MaxDirect}
Tasks == (1..MaxN) \cup DirectTasks

\* A future is in buffer_unordered's in_progress_queue from the moment it is
\* pulled from the stream until it completes.
InQueue == {t \in RunTasks : pc[t] \in {"pending", "running", "probing"}}

\* Calls that hold a permit: between semaphore.acquire() and the return.
Holding == {t \in Tasks : pc[t] \in {"running", "probing"}}

\* main is not followed in this specification.
NoSummary == [total_files |-> 0, successful |-> 0, failed |-> 0, produced |-> FALSE]
MainIdle ==
    /\ m_pc = "idle"
    /\ m_args = <<>>
    /\ m_recursive = FALSE
    /\ m_idx = 0
    /\ all_files = <<>>
    /\ m_outcomes = <<>>
    /\ successful = <<>>
    /\ errors = <<>>
    /\ total_duration = F64(0)
    /\ total_size = 0
    /\ summary = NoSummary

\* No analyze_file call is followed through its data in this specification.
ResolveIdle ==
    /\ r_pc = "idle"
    /\ r_path = <<>>
    /\ r_exists = FALSE
    /\ r_stat = NoU64
    /\ r_tool = NoTool
    /\ r_info = AudioInfoNew(<<>>)
    /\ r_result = [ok |-> FALSE, err |-> "none", path |-> <<>>, info |-> AudioInfoNew(<<>>)]

SchedInit ==
    /\ n \in 0..MaxN
    /\ maxc \in 0..MaxC
    /\ use_ffprobe \in BOOLEAN
    /\ permits = maxc
    /\ pc = [t \in Tasks |-> IF t \in 1..n THEN "queued" ELSE "idle"]
    /\ next = 1
    /\ streamDone = FALSE
    /\ results = <<>>
    /\ progress = 0
    /\ pfpc = "collecting"

\* buffer_unordered: while the queue holds fewer than max futures, poll the
\* stream; Some(fut) is pushed to the queue.
BufferPullMutAtLeastOne ==
    /\ pfpc = "collecting"
    /\ ~streamDone
    /\ Cardinality(InQueue) < maxc \/ InQueue = {}
    /\ next <= n
    /\ pc[next] = "queued"
    /\ pc' = [pc EXCEPT ![next] = "pending"]
    /\ next' = next + 1
    /\ UNCHANGED <<n, maxc, use_ffprobe, permits, streamDone, results, progress, pfpc>>
    /\ UNCHANGED <<resolveVars, mainVars>>
BufferPull ==
    /\ pfpc = "collecting"
    /\ ~streamDone
    /\ Cardinality(InQueue) < maxc
    /\ next <= n
    /\ pc[next] = "queued"
    /\ pc' = [pc EXCEPT ![next] = "pending"]
    /\ next' = next + 1
    /\ UNCHANGED <<n, maxc, use_ffprobe, permits, streamDone, results, progress, pfpc>>
    /\ UNCHANGED <<resolveVars, mainVars>>

\* buffer_unordered: the same poll of the stream yields None once the
\* iterator is exhausted.
StreamEnd ==
    /\ pfpc = "collecting"
    /\ ~streamDone
    /\ Cardinality(InQueue) < maxc
    /\ next > n
    /\ streamDone' = TRUE
    /\ UNCHANGED <<n, maxc, use_ffprobe, permits, pc, next, results, progress, pfpc>>
    /\ UNCHANGED <<resolveVars, mainVars>>

\* A caller outside process_files starts analyze_file on a clone.
CallAnalyzeFile(t) ==
    /\ t \in DirectTasks
    /\ pc[t] = "idle"
    /\ pc' = [pc EXCEPT ![t] = "pending"]
    /\ UNCHANGED <<n, maxc, use_ffprobe, permits, next, streamDone, results, progress, pfpc>>
    /\ UNCHANGED <<resolveVars, mainVars>>

\* let _permit = self.semaphore.acquire().await.unwrap();
AcquireMutNoWait(t) ==
    /\ pc[t] = "pending"
    /\ permits' = permits - 1
    /\ pc' = [pc EXCEPT ![t] = "running"]
    /\ UNCHANGED <<n, maxc, use_ffprobe, next, streamDone, results, progress, pfpc>>
    /\ UNCHANGED <<resolveVars, mainVars>>
AcquireMutCloneOwnPermits(t) ==
    /\ pc[t] = "pending"
    /\ t \in DirectTasks \/ permits > 0
    /\ permits' = permits - 1
    /\ pc' = [pc EXCEPT ![t] = "running"]
    /\ UNCHANGED <<n, maxc, use_ffprobe, next, streamDone, results, progress, pfpc>>
    /\ UNCHANGED <<resolveVars, mainVars>>
Acquire(t) ==
    /\ pc[t] = "pending"
    /\ permits > 0
    /\ permits' = permits - 1
    /\ pc' = [pc EXCEPT ![t] = "running"]
    /\ UNCHANGED <<n, maxc, use_ffprobe, next, streamDone, results, progress, pfpc>>
    /\ UNCHANGED <<resolveVars, mainVars>>

\* Dropping _permit on return, whatever the result.
ReleaseMutLeakOnErr(p, ok) == IF ok THEN p + 1 ELSE p
Release(p, ok) == p + 1

\* collect::<Vec<_>>() pushes each completed future's result.
CollectMutDropErr(rs, t, ok) == IF ok THEN Append(rs, [target |-> t, ok |-> ok]) ELSE rs
Collect(rs, t, ok) == Append(rs, [target |-> t, ok |-> ok])

\* pb.inc(1), after probe.analyze_file(path).await whatever it returned.
PbIncMutOkOnly(pos, ok) == IF ok THEN pos + 1 ELSE pos
PbInc(pos, ok) == pos + 1

\* analyze_file returns: the permit is dropped; inside process_files the
\* wrapping future then bumps the progress bar and its result is collected.
Return(t, ok) ==
    /\ pc' = [pc EXCEPT ![t] = IF ok THEN "ok" ELSE "notfound"]
    /\ permits' = Release(permits, ok)
    /\ IF t \in RunTasks
       THEN /\ progress' = PbInc(progress, ok)
            /\ results' = Collect(results, t, ok)
       ELSE UNCHANGED <<progress, results>>
    /\ UNCHANGED <<n, maxc, use_ffprobe, next, streamDone, pfpc>>
    /\ UNCHANGED <<resolveVars, mainVars>>

\* if !path.exists() { return Err(FileNotFound { path }) }
FileNotFound(t) ==
    /\ pc[t] = "running"
    /\ Return(t, FALSE)

\* The path exists and ffprobe is in use: the call awaits the subprocess.
SpawnFfprobe(t) ==
    /\ pc[t] = "running"
    /\ use_ffprobe
    /\ pc' = [pc EXCEPT ![t] = "probing"]
    /\ UNCHANGED <<n, maxc, use_ffprobe, permits, next, streamDone, results, progress, pfpc>>
    /\ UNCHANGED <<resolveVars, mainVars>>

\* The path exists and ffprobe is not in use: fallback_analysis, Ok.
FallbackReturn(t) ==
    /\ pc[t] = "running"
    /\ ~use_ffprobe
    /\ Return(t, TRUE)

\* The subprocess ended: tool-derived record, or fallback_analysis on Err; Ok.
FfprobeReturn(t) ==
    /\ pc[t] = "probing"
    /\ Return(t, TRUE)

\* The stream is done and the queue is empty: collect completes.
ProcessFilesReturnMutStopOnErr ==
    /\ pfpc = "collecting"
    /\ \/ streamDone /\ InQueue = {}
       \/ \E i \in 1..Len(results) : ~results[i].ok
    /\ pfpc' = "returned"
    /\ UNCHANGED <<n, maxc, use_ffprobe, permits, pc, next, streamDone, results, progress>>
    /\ UNCHANGED <<resolveVars, mainVars>>
ProcessFilesReturn ==
    /\ pfpc = "collecting"
    /\ streamDone
    /\ InQueue = {}
    /\ pfpc' = "returned"
    /\ UNCHANGED <<n, maxc, use_ffprobe, permits, pc, next, streamDone, results, progress>>
    /\ UNCHANGED <<resolveVars, mainVars>>

Progress ==
    \/ BufferPull
    \/ StreamEnd
    \/ ProcessFilesReturn
    \/ \E t \in Tasks : Acquire(t)
    \/ \E t \in Tasks : FileNotFound(t)
    \/ \E t \in Tasks : SpawnFfprobe(t)
    \/ \E t \in Tasks : FallbackReturn(t)
    \/ \E t \in Tasks : FfprobeReturn(t)

Next ==
    \/ Progress
    \/ \E t \in DirectTasks : CallAnalyzeFile(t)

Init == SchedInit /\ ResolveIdle /\ MainIdle

Spec == Init /\ [][Next]_vars

\* Every started step of a resolution and of the scheduler is eventually
\* run by the runtime; nothing obliges outside callers to call.
FairSpec == Spec /\ WF_vars(Progress)

\* ---------------------------------------------- claims on the scheduler
Finished(t) == pc[t] \in {"ok", "notfound"}
Occurrences(t) == {i \in 1..Len(results) : results[i].target = t}

\* C1: when process_files returns, the collected Vec has exactly n entries
\* and every submitted target accounts for exactly one of them, whatever
\* the concurrency limit and the completion order.
C1_OneOutcomePerTarget ==
    pfpc = "returned" =>
        /\ Len(results) = n
        /\ \A t \in 1..n : Cardinality(Occurrences(t)) = 1
        /\ \A i \in 1..Len(results) : results[i].target \in 1..n

\* Three targets under a limit of two, the second submitted being the
\* first to complete and one of them failing.
C1_Witness ==
    /\ pfpc = "returned"
    /\ n = 3
    /\ maxc = 2
    /\ Len(results) = 3
    /\ results[1].target = 2
    /\ \E i \in 1..3 : ~results[i].ok

\* C2: at every moment at most C resolutions are between the semaphore
\* acquire and the return of analyze_file (those of the process_files run
\* and the direct calls on clones together).
C2_AtMostCInFlight == Cardinality(Holding) <= maxc

\* The run has C >= 2 of its resolutions in flight and more targets waiting
\* in the stream.
C2_Witness ==
    /\ maxc >= 2
    /\ Cardinality(Holding \cap RunTasks) = maxc
    /\ \E t \in RunTasks : pc[t] = "queued"

\* C3: permits held by calls in flight plus permits available equal the
\* configured limit, the available count is never negative, and every
\* permit is back once no call is in flight.
C3_PermitsConserved ==
    /\ permits >= 0
    /\ Cardinality(Holding) + permits = maxc
    /\ (\A t \in Tasks : pc[t] \notin {"running", "probing"}) => permits = maxc

\* A call ended with FileNotFound, another with Ok, none is in flight and
\* all permits are available.
C3_Witness ==
    /\ \E t1, t2 \in Tasks : pc[t1] = "notfound" /\ pc[t2] = "ok"
    /\ Holding = {}
    /\ maxc >= 1
    /\ permits = maxc

\* C4: under a positive limit process_files eventually returns, it returns
\* only when every submitted target has its outcome, and a FileNotFound
\* among the targets keeps no other target from being resolved.
C4_ReturnsAfterAll ==
    /\ (maxc >= 1) ~> (pfpc = "returned")
    /\ [](pfpc = "returned" => \A t \in RunTasks : Finished(t))

\* The run has returned with one target failed and another resolved after
\* it.
C4_Witness ==
    /\ pfpc = "returned"
    /\ Len(results) >= 2
    /\ ~results[1].ok
    /\ results[Len(results)].ok

\* --------------------------------------------- one analyze_file call, in data
SchedIdle ==
    /\ n = 0
    /\ maxc = 1
    /\ permits = 1
    /\ pc = [t \in Tasks |-> "idle"]
    /\ next = 1
    /\ streamDone = FALSE
    /\ results = <<>>
    /\ progress = 0
    /\ pfpc = "idle"

Err(path) == [ok |-> FALSE, err |-> "FileNotFound", path |-> path, info |-> AudioInfoNew(path)]
Ok(info) == [ok |-> TRUE, err |-> "none", path |-> info.file_path, info |-> info]
NoResult == [ok |-> FALSE, err |-> "none", path |-> <<>>, info |-> AudioInfoNew(<<>>)]

ResolveInit ==
    /\ use_ffprobe \in BOOLEAN
    /\ SchedIdle
    /\ MainIdle
    /\ r_pc = "called"
    /\ r_path \in Paths
    /\ r_exists \in BOOLEAN
    /\ r_stat = NoU64
    /\ r_tool = NoTool
    /\ r_info = AudioInfoNew(r_path)
    /\ r_result = NoResult

\* !path.exists()
PathMissingMutNeverChecked(exists) == FALSE
PathMissing(exists) == ~exists

\* if !path.exists() { return Err(AudioProbeError::FileNotFound { path }) }
ResolveNotFound ==
    /\ r_pc = "called"
    /\ PathMissing(r_exists)
    /\ r_result' = Err(r_path)
    /\ r_pc' = "returned"
    /\ UNCHANGED <<r_path, r_exists, r_stat, r_tool, r_info>>
    /\ UNCHANGED <<schedVars, mainVars>>

\* The path exists: AudioInfo::new and the file size.
ResolveStat ==
    /\ r_pc = "called"
    /\ ~PathMissing(r_exists)
    /\ \E stat \in Stats :
        /\ r_stat' = stat
        /\ r_info' = WithFileSize(AudioInfoNew(r_path), stat)
    /\ r_pc' = "sized"
    /\ UNCHANGED <<r_path, r_exists, r_tool, r_result>>
    /\ UNCHANGED <<schedVars, mainVars>>

\* if self.use_ffprobe: the tool-derived record, or the estimate on Err.
ResolveWithFfprobeOn(tools) ==
    /\ r_pc = "sized"
    /\ use_ffprobe
    /\ \E tool \in tools :
        LET res == analyze_with_ffprobe(r_path, r_stat, tool)
        IN /\ r_tool' = tool
           /\ r_info' = IF res.ok THEN res.info ELSE fallback_analysis(r_info, r_path)
    /\ r_pc' = "analyzed"
    /\ UNCHANGED <<r_path, r_exists, r_stat, r_result>>
    /\ UNCHANGED <<schedVars, mainVars>>
ResolveWithFfprobe == ResolveWithFfprobeOn(ToolOutcomes)

\* else: the estimate.
ResolveFallback ==
    /\ r_pc = "sized"
    /\ ~use_ffprobe
    /\ r_info' = fallback_analysis(r_info, r_path)
    /\ r_pc' = "analyzed"
    /\ UNCHANGED <<r_path, r_exists, r_stat, r_tool, r_result>>
    /\ UNCHANGED <<schedVars, mainVars>>

\* The default metadata block, then Ok(audio_info).
ResolveReturn ==
    /\ r_pc = "analyzed"
    /\ r_result' = Ok([r_info EXCEPT !.metadata = BackFill(@, r_path)])
    /\ r_pc' = "returned"
    /\ UNCHANGED <<r_path, r_exists, r_stat, r_tool, r_info>>
    /\ UNCHANGED <<schedVars, mainVars>>

ResolveNext ==
    \/ ResolveNotFound
    \/ ResolveStat
    \/ ResolveWithFfprobe
    \/ ResolveFallback
    \/ ResolveReturn

SpecResolve == ResolveInit /\ [][ResolveNext]_vars

\* ------------------------------------- the default metadata block, by itself
\* Every tag mapping a record can carry into the block: any of the three
\* defaulted keys and one other, each absent, empty or set.
TagKeys == {Title, Artist, Album, <<"g", "e", "n", "r", "e">>}
TagValues == {<<>>, <<"v">>}
TagMaps == UNION {[K -> TagValues] : K \in SUBSET TagKeys}

BackFillInit ==
    /\ use_ffprobe = FALSE
    /\ SchedIdle
    /\ MainIdle
    /\ r_pc = "analyzed"
    /\ r_path \in Paths
    /\ r_exists = TRUE
    /\ r_stat = NoU64
    /\ r_tool = NoTool
    /\ \E m \in TagMaps : r_info = [AudioInfoNew(r_path) EXCEPT !.metadata = m]
    /\ r_result = NoResult

\* The block run once more, on the record that was returned.
BackFillAgain ==
    /\ r_pc = "returned"
    /\ r_result.ok
    /\ r_info' = r_result.info
    /\ r_result' = Ok([r_result.info EXCEPT !.metadata = BackFill(@, r_path)])
    /\ r_pc' = "refilled"
    /\ UNCHANGED <<r_path, r_exists, r_stat, r_tool>>
    /\ UNCHANGED <<schedVars, mainVars>>

BackFillNext ==
    \/ ResolveReturn
    \/ BackFillAgain

SpecBackFill == BackFillInit /\ [][BackFillNext]_vars

\* -------------------------------------------------------------------- main
audio_extensions ==
    { <<"m", "p", "3">>,
      <<"w", "a", "v">>,
      <<"f", "l", "a", "c">>,
      <<"a", "a", "c">>,
      <<"o", "g", "g">>,
      <<"m", "4", "a">>,
      <<"w", "m", "a">>,
      <<"o", "p", "u", "s">>,
      <<"m", "p", "2">>,
      <<"a", "c", "3">>,
      <<"d", "t", "s">>,
      <<"a", "p", "e">>,
      <<"a", "i", "f", "f">>,
      <<"a", "u">>,
      <<"r", "a">>,
      <<"a", "m", "r">>,
      <<"w", "e", "b", "m">>,
      <<"m", "k", "v">>,
      <<"m", "4", "b">>,
      <<"m", "4", "p">> }

\* The extension test shared by collect_audio_files and the non-recursive
\* branch of main.
IsAudioFile(path) ==
    /\ extension(path).some
    /\ to_lowercase(extension(path).v) \in audio_extensions

\* The PATH arguments main may be given: two files, a directory holding a
\* text file and an audio file and, one level down, another text file, and
\* a path that does not exist.
FileA == <<"a", ".", "m", "p", "3">>
FileB == <<"b", ".", "w", "a", "v">>
FileC == <<"c", ".", "F", "L", "A", "C">>
ArgPaths ==
    { [kind |-> "file", path |-> FileA, entries |-> <<>>],
      [kind |-> "file", path |-> FileB, entries |-> <<>>],
      [kind |-> "dir", path |-> <<"d">>,
       entries |-> << [path |-> <<"n", ".", "t", "x", "t">>, depth |-> 1],
                      [path |-> FileC, depth |-> 1],
                      [path |-> <<"r", ".", "m", "d">>, depth |-> 2] >>],
      [kind |-> "missing", path |-> <<"m">>, entries |-> <<>>] }

RECURSIVE SeqsUpTo(_, _)
SeqsUpTo(S, k) ==
    IF k = 0 THEN {<<>>}
    ELSE LET shorter == SeqsUpTo(S, k - 1)
         IN shorter \cup {Append(q, x) : q \in {r \in shorter : Len(r) = k - 1}, x \in S}

\* The audio files among the entries down to a depth, in walk order.
RECURSIVE AudioEntries(_, _)
AudioEntries(entries, depth) ==
    IF entries = <<>> THEN <<>>
    ELSE (IF entries[1].depth <= depth /\ IsAudioFile(entries[1].path)
          THEN <<entries[1].path>> ELSE <<>>) \o AudioEntries(Tail(entries), depth)

\* collect_audio_files: Err as soon as WalkDir yields an Err entry, else every
\* audio file under the root.
collect_audio_files(root, walk_ok) ==
    IF walk_ok THEN [ok |-> TRUE, files |-> AudioEntries(root.entries, 2)]
    ELSE [ok |-> FALSE, files |-> <<>>]

\* What main sees of a result: the record's duration and size, or the error.
ErrOutcome(path) == [ok |-> FALSE, path |-> path, duration_seconds |-> F64(0), file_size |-> 0]
OkOutcome(path, d, sz) ==
    [ok |-> TRUE, path |-> path, duration_seconds |-> F64(d), file_size |-> sz]
AnalyzedAs(path) ==
    CASE path = FileA -> OkOutcome(FileA, 10, 100)
      [] path = FileB -> OkOutcome(FileB, 20, 200)
      [] OTHER -> OkOutcome(path, 30, 300)

\* for result in results { match result { Ok(i) => successful.push(i),
\*                                        Err(e) => errors.push(e) } }
RECURSIVE PartitionMutPrepend(_, _)
PartitionMutPrepend(acc, outs) ==
    IF outs = <<>> THEN acc
    ELSE PartitionMutPrepend(
            IF outs[1].ok THEN [acc EXCEPT !.successful = <<outs[1]>> \o @]
            ELSE [acc EXCEPT !.errors = <<outs[1]>> \o @],
            Tail(outs))
RECURSIVE Partition(_, _)
Partition(acc, outs) ==
    IF outs = <<>> THEN acc
    ELSE Partition(
            IF outs[1].ok THEN [acc EXCEPT !.successful = Append(@, outs[1])]
            ELSE [acc EXCEPT !.errors = Append(@, outs[1])],
            Tail(outs))

\* successful.iter().map(|info| info.duration_seconds).sum()
RECURSIVE SumDurations(_)
SumDurations(infos) ==
    IF infos = <<>> THEN F64(0)
    ELSE F64Add(infos[1].duration_seconds, SumDurations(Tail(infos)))

\* successful.iter().map(|info| info.file_size).sum()
RECURSIVE SumSizes(_)
SumSizes(infos) ==
    IF infos = <<>> THEN 0 ELSE infos[1].file_size + SumSizes(Tail(infos))

MainInit ==
    /\ SchedIdle
    /\ use_ffprobe = FALSE
    /\ ResolveIdle
    /\ m_pc = "parsed"
    /\ m_args \in SeqsUpTo(ArgPaths, MaxArgs)
    /\ m_recursive \in BOOLEAN
    /\ m_idx = 0
    /\ all_files = <<>>
    /\ m_outcomes = <<>>
    /\ successful = <<>>
    /\ errors = <<>>
    /\ total_duration = F64(0)
    /\ total_size = 0
    /\ summary = NoSummary

keepSched == <<n, pc, next, streamDone, results, progress, pfpc>>
keepAgg == <<m_outcomes, successful, errors, total_duration, total_size, summary>>

\* if args.paths.is_empty() { std::process::exit(1) }
MainNoPaths ==
    /\ m_pc = "parsed"
    /\ m_args = <<>>
    /\ m_pc' = "exit_1"
    /\ UNCHANGED <<m_args, m_recursive, m_idx, all_files>>
    /\ UNCHANGED <<keepAgg, schedVars, resolveVars>>

\* AudioProbe::new(args.max_concurrent): the semaphore gets max_concurrent
\* permits, use_ffprobe what "ffprobe -version" gave.
MainNewProbe ==
    /\ m_pc = "parsed"
    /\ m_args # <<>>
    /\ \E c \in 0..MaxC, f \in BOOLEAN :
        /\ maxc' = c
        /\ permits' = c
        /\ use_ffprobe' = f
    /\ m_pc' = "paths"
    /\ m_idx' = 1
    /\ UNCHANGED <<m_args, m_recursive, all_files>>
    /\ UNCHANGED <<keepAgg, keepSched, resolveVars>>

InLoop == m_pc = "paths" /\ m_idx <= Len(m_args)

LoopStep(files) ==
    /\ all_files' = files
    /\ m_idx' = m_idx + 1
    /\ UNCHANGED <<m_pc, m_args, m_recursive>>
    /\ UNCHANGED <<keepAgg, schedVars, resolveVars>>

\* if path.is_file() { all_files.push(path.clone()) }
MainPathFile ==
    /\ InLoop
    /\ m_args[m_idx].kind = "file"
    /\ LoopStep(Append(all_files, m_args[m_idx].path))

\* path.is_dir() and args.recursive: collect_audio_files gave Ok.
MainPathWalked ==
    /\ InLoop
    /\ m_args[m_idx].kind = "dir"
    /\ m_recursive
    /\ LoopStep(all_files \o collect_audio_files(m_args[m_idx], TRUE).files)

\* path.is_dir() and args.recursive: collect_audio_files gave Err, which
\* with_context(..)? returns from main.
MainPathWalkFailed ==
    /\ InLoop
    /\ m_args[m_idx].kind = "dir"
    /\ m_recursive
    /\ ~collect_audio_files(m_args[m_idx], FALSE).ok
    /\ m_pc' = "exit_err"
    /\ UNCHANGED <<m_args, m_recursive, m_idx, all_files>>
    /\ UNCHANGED <<keepAgg, schedVars, resolveVars>>

\* path.is_dir(), not recursive: the audio files read_dir lists, none when
\* read_dir gave Err.
MainPathListed ==
    /\ InLoop
    /\ m_args[m_idx].kind = "dir"
    /\ ~m_recursive
    /\ \E read_ok \in BOOLEAN :
        LoopStep(IF read_ok THEN all_files \o AudioEntries(m_args[m_idx].entries, 1)
                 ELSE all_files)

\* warn!("Path does not exist")
MainPathMissing ==
    /\ InLoop
    /\ m_args[m_idx].kind = "missing"
    /\ LoopStep(all_files)

\* if all_files.is_empty() { return Ok(()) }
MainNoFiles ==
    /\ m_pc = "paths"
    /\ m_idx > Len(m_args)
    /\ all_files = <<>>
    /\ m_pc' = "exit_nofiles"
    /\ UNCHANGED <<m_args, m_recursive, m_idx, all_files>>
    /\ UNCHANGED <<keepAgg, schedVars, resolveVars>>

\* probe.process_files(all_files) is called.
MainProcessFiles ==
    /\ m_pc = "paths"
    /\ m_idx > Len(m_args)
    /\ all_files # <<>>
    /\ m_pc' = "processing"
    /\ n' = Len(all_files)
    /\ pc' = [t \in Tasks |-> IF t \in 1..Len(all_files) THEN "queued" ELSE "idle"]
    /\ next' = 1
    /\ streamDone' = FALSE
    /\ results' = <<>>
    /\ progress' = 0
    /\ pfpc' = "collecting"
    /\ UNCHANGED <<maxc, use_ffprobe, permits>>
    /\ UNCHANGED <<m_args, m_recursive, m_idx, all_files>>
    /\ UNCHANGED <<keepAgg, resolveVars>>

\* process_files has returned its Vec to main.
MainResults ==
    /\ m_pc = "processing"
    /\ pfpc = "returned"
    /\ m_outcomes' = [i \in 1..Len(results) |->
                        IF results[i].ok THEN AnalyzedAs(all_files[results[i].target])
                        ELSE ErrOutcome(all_files[results[i].target])]
    /\ m_pc' = "aggregate"
    /\ UNCHANGED <<m_args, m_recursive, m_idx, all_files>>
    /\ UNCHANGED <<successful, errors, total_duration, total_size, summary>>
    /\ UNCHANGED <<schedVars, resolveVars>>

\* The loop that fills successful and errors.
AggPartition ==
    /\ m_pc = "aggregate"
    /\ LET parts == Partition([successful |-> <<>>, errors |-> <<>>], m_outcomes)
       IN /\ successful' = parts.successful
          /\ errors' = parts.errors
    /\ m_pc' = "partitioned"
    /\ UNCHANGED <<m_args, m_recursive, m_idx, all_files, m_outcomes>>
    /\ UNCHANGED <<total_duration, total_size, summary>>
    /\ UNCHANGED <<schedVars, resolveVars>>

\* total_duration and total_size.
AggTotals ==
    /\ m_pc = "partitioned"
    /\ total_duration' = SumDurations(successful)
    /\ total_size' = SumSizes(successful)
    /\ m_pc' = "totalled"
    /\ UNCHANGED <<m_args, m_recursive, m_idx, all_files, m_outcomes>>
    /\ UNCHANGED <<successful, errors, summary>>
    /\ UNCHANGED <<schedVars, resolveVars>>

\* The report, with its summary, is built and written.
AggReport ==
    /\ m_pc = "totalled"
    /\ summary' = [total_files |-> Len(successful) + Len(errors),
                   successful |-> Len(successful),
                   failed |-> Len(errors),
                   produced |-> TRUE]
    /\ m_pc' = "exit_ok"
    /\ UNCHANGED <<m_args, m_recursive, m_idx, all_files, m_outcomes>>
    /\ UNCHANGED <<successful, errors, total_duration, total_size>>
    /\ UNCHANGED <<schedVars, resolveVars>>

Aggregate ==
    \/ AggPartition
    \/ AggTotals
    \/ AggReport

MainNext ==
    \/ MainNoPaths
    \/ MainNewProbe
    \/ MainPathFile
    \/ MainPathWalked
    \/ MainPathWalkFailed
    \/ MainPathListed
    \/ MainPathMissing
    \/ MainNoFiles
    \/ MainProcessFiles
    \/ Progress
    \/ MainResults
    \/ Aggregate

SpecMain == MainInit /\ [][MainNext]_vars

\* The aggregation of main on its own, over every Vec of results.
Outcomes ==
    {ErrOutcome(FileA), ErrOutcome(FileB),
     AnalyzedAs(FileA), AnalyzedAs(FileB), AnalyzedAs(FileC)}

AggregateInit ==
    /\ SchedIdle
    /\ use_ffprobe = FALSE
    /\ ResolveIdle
    /\ m_pc = "aggregate"
    /\ m_args = <<>>
    /\ m_recursive = FALSE
    /\ m_idx = 0
    /\ all_files = <<>>
    /\ m_outcomes \in SeqsUpTo(Outcomes, MaxOutcomes)
    /\ successful = <<>>
    /\ errors = <<>>
    /\ total_duration = F64(0)
    /\ total_size = 0
    /\ summary = NoSummary

SpecAggregate == AggregateInit /\ [][Aggregate]_vars

\* ------------------------------- ffprobe outputs of more than one stream
\* One analyze_file call on an existing file, ffprobe giving any sequence of
\* up to MaxStreams streams: two audio streams that differ in every field,
\* an audio stream with no field, a video stream and a data stream.
ProbeStreams ==
    { AudioStream(SomeStr(<<"aac">>), SomeStr(<<"4", "4", "1", "0", "0">>), SomeInt(2),
                  SomeStr(<<"2">>)),
      [codec_type |-> <<"audio">>, codec_name |-> SomeStr(<<"opus">>),
       codec_long_name |-> SomeStr(<<"Opus">>),
       sample_rate |-> SomeStr(<<"4", "8", "0", "0", "0">>), channels |-> SomeInt(1),
       bit_rate |-> SomeStr(<<"5">>)],
      AudioStream(NoStr, NoStr, NoInt, NoStr),
      [codec_type |-> <<"video">>, codec_name |-> SomeStr(<<"h264">>),
       codec_long_name |-> SomeStr(<<"H.264">>),
       sample_rate |-> SomeStr(<<"9">>), channels |-> SomeInt(9),
       bit_rate |-> SomeStr(<<"7">>)],
      [codec_type |-> <<"data">>, codec_name |-> NoStr, codec_long_name |-> NoStr,
       sample_rate |-> NoStr, channels |-> NoInt, bit_rate |-> NoStr] }
ProbeFormats ==
    { NoFormat,
      [some |-> TRUE, format_name |-> <<"mov">>, format_long_name |-> <<"QuickTime / MOV">>,
       duration |-> SomeStr(<<"3">>), bit_rate |-> SomeStr(<<"3">>), tags |-> NoTags] }
ProbeOutcomes ==
    { [kind |-> "ok", doc |-> [format |-> f, streams |-> ss]] :
        f \in ProbeFormats, ss \in SeqsUpTo(ProbeStreams, MaxStreams) }

ProbeInit ==
    /\ use_ffprobe = TRUE
    /\ SchedIdle
    /\ MainIdle
    /\ r_pc = "called"
    /\ r_path = <<"s", ".", "m", "p", "3">>
    /\ r_exists = TRUE
    /\ r_stat = NoU64
    /\ r_tool = NoTool
    /\ r_info = AudioInfoNew(r_path)
    /\ r_result = NoResult

ProbeWithFfprobe == ResolveWithFfprobeOn(ProbeOutcomes)

ProbeNext ==
    \/ ResolveStat
    \/ ProbeWithFfprobe
    \/ ResolveReturn

SpecProbe == ProbeInit /\ [][ProbeNext]_vars

\* ------------------------------------------------------- claims on main
MainEnded == m_pc \in {"exit_1", "exit_err", "exit_nofiles", "exit_ok"}
TraversalFailed == m_pc = "exit_err"
OtherFiles ==
    {m_args[i].path : i \in {j \in 1..Len(m_args) : j # m_idx /\ m_args[j].kind = "file"}}
Resolved(path) == \E i \in 1..Len(m_outcomes) : m_outcomes[i].path = path

\* C6: when the recursive traversal of one root fails and other paths were
\* supplied, main still ends with the files of the other paths resolved and
\* a report produced (the probe has at least one permit, so nothing else
\* stands between the collected files and their analysis).
C6_FailedRootLosesOnlyItself ==
    (MainEnded /\ TraversalFailed /\ OtherFiles # {} /\ maxc >= 1) =>
        /\ summary.produced
        /\ \A f \in OtherFiles : Resolved(f)

OkIdx == {i \in 1..Len(m_outcomes) : m_outcomes[i].ok}
ErrIdx == {i \in 1..Len(m_outcomes) : ~m_outcomes[i].ok}
Nth(S, j) == CHOOSE i \in S : Cardinality({k \in S : k < i}) = j - 1

RECURSIVE SizeOver(_)
SizeOver(S) ==
    IF S = {} THEN 0
    ELSE LET i == CHOOSE x \in S : TRUE
         IN m_outcomes[i].file_size + SizeOver(S \ {i})
RECURSIVE SecondsOver(_)
SecondsOver(S) ==
    IF S = {} THEN 0
    ELSE LET i == CHOOSE x \in S : TRUE
         IN m_outcomes[i].duration_seconds.num + SecondsOver(S \ {i})

\* C7: the aggregation splits the results into successes and failures, each
\* in the order of the results, the two counts add up to the number of
\* results, and total duration and total size are the sums over the
\* successes alone (zero when there is none).
C7_PartitionAndSums ==
    m_pc = "exit_ok" =>
        /\ Len(successful) = Cardinality(OkIdx)
        /\ Len(errors) = Cardinality(ErrIdx)
        /\ \A j \in 1..Len(successful) : successful[j] = m_outcomes[Nth(OkIdx, j)]
        /\ \A j \in 1..Len(errors) : errors[j] = m_outcomes[Nth(ErrIdx, j)]
        /\ Len(successful) + Len(errors) = Len(m_outcomes)
        /\ summary.successful = Cardinality(OkIdx)
        /\ summary.failed = Cardinality(ErrIdx)
        /\ summary.total_files = Len(m_outcomes)
        /\ total_size = SizeOver(OkIdx)
        /\ F64Eq(total_duration, F64(SecondsOver(OkIdx)))
        /\ OkIdx = {} => total_size = 0 /\ F64Eq(total_duration, F64(0))

\* Three successes of 10, 20 and 30 seconds and 100, 200 and 300 bytes
\* between two failures: counts 3 and 2, 60 seconds, 600 bytes.
C7_Witness ==
    /\ m_pc = "exit_ok"
    /\ Len(m_outcomes) = 5
    /\ ~m_outcomes[1].ok
    /\ ~m_outcomes[5].ok
    /\ successful = <<AnalyzedAs(FileA), AnalyzedAs(FileB), AnalyzedAs(FileC)>>
    /\ summary.successful = 3
    /\ summary.failed = 2
    /\ F64Eq(total_duration, F64(60))
    /\ total_size = 600

\* ------------------------------------------- claims on the metadata resolver
Returned == r_pc = "returned"

\* C5: analyze_file returns Err exactly when the path does not exist at the
\* existence check, the error is FileNotFound carrying the path, and an
\* existing path yields Ok whatever the probing tool did.
C5_ErrIffMissing ==
    Returned =>
        /\ r_result.ok <=> r_exists
        /\ ~r_result.ok => r_result.err = "FileNotFound" /\ r_result.path = r_path
        /\ r_result.ok => r_result.info.file_path = r_path

\* An existing path whose ffprobe output failed to parse came back Ok.
C5_Witness ==
    /\ Returned
    /\ r_exists
    /\ use_ffprobe
    /\ r_tool.kind = "parse_failed"
    /\ r_result.ok

\* C8: every record analyze_file returns has duration, bit-rate,
\* sample-rate and channel count >= 0.
C8_FieldsNonNegative ==
    (Returned /\ r_result.ok) =>
        /\ F64NonNeg(r_result.info.duration_seconds)
        /\ r_result.info.bit_rate >= 0
        /\ r_result.info.sample_rate >= 0
        /\ r_result.info.channels >= 0

\* C9: the default metadata block runs after the tool-derived and the
\* estimated path alike, keeps every key that is present with its value
\* (an empty value included), adds no key but title, artist and album, and
\* gives an added key its default.
C9_BackFillFrame ==
    (Returned /\ r_result.ok) =>
        LET pre == r_info.metadata
            post == r_result.info.metadata
        IN /\ \A k \in DOMAIN pre : k \in DOMAIN post /\ post[k] = pre[k]
           /\ (DOMAIN post \ DOMAIN pre) \subseteq {Title, Artist, Album}
           /\ Artist \in DOMAIN post
           /\ Album \in DOMAIN post
           /\ Artist \notin DOMAIN pre => post[Artist] = <<"Unknown Artist">>
           /\ Album \notin DOMAIN pre => post[Album] = <<"Unknown Album">>
           /\ \A stem \in {file_stem(r_path)} :
                /\ (Title \notin DOMAIN pre /\ stem.some) =>
                        (Title \in DOMAIN post /\ post[Title] = stem.v)
                /\ (Title \notin DOMAIN pre /\ ~stem.some) => Title \notin DOMAIN post

\* A tool-derived record whose title tag is present and empty kept it, and
\* got the default artist.
C9_Witness ==
    /\ Returned
    /\ r_tool.kind = "ok"
    /\ HasKey(r_info.metadata, Title)
    /\ r_info.metadata[Title] = <<>>
    /\ r_result.info.metadata[Title] = <<>>
    /\ ~HasKey(r_info.metadata, Artist)
    /\ r_result.info.metadata[Artist] = <<"Unknown Artist">>

\* The bit-rate strings the tool's output declares, as integers: 0 when
\* absent or unparsable.
DeclaredContainerBitRate ==
    LET f == r_tool.doc.format
    IN IF f.some /\ f.bit_rate.some /\ ParseInt(f.bit_rate.v).some
       THEN ParseInt(f.bit_rate.v).v ELSE 0
AudioIndexes ==
    {i \in 1..Len(r_tool.doc.streams) : r_tool.doc.streams[i].codec_type = <<"audio">>}
DeclaredStreamBitRate ==
    IF AudioIndexes = {} THEN 0
    ELSE LET st == r_tool.doc.streams[CHOOSE i \in AudioIndexes : \A j \in AudioIndexes : i <= j]
         IN IF st.bit_rate.some /\ ParseInt(st.bit_rate.v).some
            THEN ParseInt(st.bit_rate.v).v ELSE 0

Estimated == Returned /\ r_result.ok /\ (~use_ffprobe \/ r_tool.kind # "ok")
LowExt == IF extension(r_path).some THEN to_lowercase(extension(r_path).v) ELSE <<>>

\* x * 8 as a natural number, in the hi * 2^61 + lo notation with no bound
\* on hi.
Mul8(x) == [hi |-> x.hi * 8, lo |-> x.lo * 8]
RECURSIVE Gcd(_, _)
Gcd(a, b) == IF b = 0 THEN a ELSE Gcd(b, a % b)
SameFraction(a, b) ==
    /\ a.num \div Gcd(a.num, a.den) = b.num \div Gcd(b.num, b.den)
    /\ a.den \div Gcd(a.num, a.den) = b.den \div Gcd(b.num, b.den)
\* d = prod / bit_rate. A product of 2^64 or more divided by a bit-rate
\* (below 2^31) is above 2^33, more than any duration of this model.
IsQuotient(d, prod, bit_rate) ==
    prod.hi = 0 /\ SameFraction(d, [num |-> prod.lo, den |-> bit_rate])

\* C11: an estimated record has duration file_size * 8 / bit_rate when the
\* row of its extension assumes a bit-rate, 300 seconds otherwise, for every
\* file size; an empty wav gets 0, an mp3 of 40000 bytes 1, a flac 300.
C11_EstimatedDuration ==
    Estimated =>
        LET info == r_result.info
        IN /\ info.bit_rate > 0 =>
                IsQuotient(info.duration_seconds, Mul8(info.file_size), info.bit_rate)
           /\ info.bit_rate = 0 => SameFraction(info.duration_seconds, F64(300))
           /\ (LowExt = <<"w", "a", "v">> /\ info.file_size = U64Of(0)) =>
                SameFraction(info.duration_seconds, F64(0))
           /\ (LowExt = <<"m", "p", "3">> /\ info.file_size = U64Of(40000)) =>
                SameFraction(info.duration_seconds, F64(1))
           /\ LowExt = <<"f", "l", "a", "c">> =>
                SameFraction(info.duration_seconds, F64(300))

\* C12: the estimated record of a path with a file name has sample-rate
\* 44100 and 2 channels whatever the extension of the file; the lowercased
\* extension selects the row (mp3: 320000; wav: pcm_s16le, 44100 * 2 * 16;
\* flac: no bit-rate), and an
\* extension outside the table gets the "EXT audio"/"EXT format" labels,
\* with bit-rate 320000.
C12_EstimateDefaults ==
    (Estimated /\ file_name(r_path).some) =>
        LET info == r_result.info
            ext == extension(r_path)
        IN /\ info.sample_rate = 44100
           /\ info.channels = 2
           /\ LowExt = <<"m", "p", "3">> => info.bit_rate = 320000
           /\ LowExt = <<"w", "a", "v">> =>
                /\ info.codec_name = <<"pcm_s16le">>
                /\ info.bit_rate = 44100 * 2 * 16
           /\ LowExt = <<"f", "l", "a", "c">> => info.bit_rate = 0
           /\ (ext.some /\ LowExt \notin {<<"m", "p", "3">>, <<"w", "a", "v">>,
                                          <<"f", "l", "a", "c">>}) =>
                /\ info.codec_long_name = to_uppercase(ext.v) \o <<" audio">>
                /\ info.format_long_name = to_uppercase(ext.v) \o <<" format">>
                /\ info.bit_rate = 320000

\* ------------------------------------ claims on the default metadata block
\* C13: the default metadata block is idempotent: run again on a record it
\* has already filled, for every tag mapping and path, it yields the tag
\* mapping of the first run.
C13_BackFillIdempotent ==
    r_pc = "refilled" => r_result.info.metadata = r_info.metadata

\* A record that came with an empty album and no other tag had title and
\* artist added by the first run, and the second run changed nothing.
C13_Witness ==
    /\ r_pc = "refilled"
    /\ r_path = <<"s", ".", "m", "p", "3">>
    /\ r_result.info.metadata =
            (Title :> <<"s">>) @@ (Artist :> <<"Unknown Artist">>) @@ (Album :> <<>>)

\* ----------------------------------------------- claims on the stream loop
FirstAudio == r_tool.doc.streams[CHOOSE i \in AudioIndexes : \A j \in AudioIndexes : i <= j]
OrElse(opt, default) == IF opt.some THEN opt.v ELSE default

\* C14: in a tool-derived record codec, sample-rate, channel count and
\* stream bit-rate are those of the first audio stream of the output and of
\* no later one (the values of AudioInfo::new when the output has no audio
\* stream), and has_video is true exactly when some stream of the output is
\* a video stream, wherever it stands.
C14_FirstAudioStream ==
    (Returned /\ r_result.ok /\ r_tool.kind = "ok") =>
        LET info == r_result.info
            ss == r_tool.doc.streams
        IN /\ info.has_video <=> (\E i \in 1..Len(ss) : ss[i].codec_type = <<"video">>)
           /\ info.bit_rate =
                (IF DeclaredContainerBitRate # 0 THEN DeclaredContainerBitRate
                 ELSE IF DeclaredStreamBitRate > 0 THEN DeclaredStreamBitRate ELSE 0)
           /\ AudioIndexes = {} =>
                /\ info.codec_name = <<>>
                /\ info.codec_long_name = <<>>
                /\ info.sample_rate = 0
                /\ info.channels = 0
           /\ AudioIndexes # {} =>
                /\ info.codec_name = OrElse(FirstAudio.codec_name, <<>>)
                /\ info.codec_long_name = OrElse(FirstAudio.codec_long_name, <<>>)
                /\ info.sample_rate =
                        (IF FirstAudio.sample_rate.some
                         THEN OrElse(ParseInt(FirstAudio.sample_rate.v), 0) ELSE 0)
                /\ info.channels = OrElse(FirstAudio.channels, 0)

\* A video stream, then the aac stream, then the opus stream, no container
\* bit-rate: the record is the aac stream's and has_video is set.
C14_Witness ==
    /\ Returned
    /\ r_tool.kind = "ok"
    /\ Len(r_tool.doc.streams) = 3
    /\ r_tool.doc.streams[1].codec_type = <<"video">>
    /\ r_tool.doc.streams[2].codec_name = SomeStr(<<"aac">>)
    /\ r_tool.doc.streams[3].codec_name = SomeStr(<<"opus">>)
    /\ ~r_tool.doc.format.some
    /\ r_result.info.codec_name = <<"aac">>
    /\ r_result.info.sample_rate = 44100
    /\ r_result.info.channels = 2
    /\ r_result.info.bit_rate = 2
    /\ r_result.info.has_video

\* ------------------------------------------- claims on the progress counter
FinishedTargets == {t \in RunTasks : Finished(t)}

\* C15: during a process_files run the progress counter never decreases,
\* moves by exactly one exactly when the resolution of a target of the run
\* finishes (Ok or FileNotFound), always equals the number of resolutions
\* finished so far, and equals n when process_files returns.
C15_ProgressCounts ==
    /\ [](progress = Cardinality(FinishedTargets))
    /\ [](pfpc = "returned" => progress = n)
    /\ [][/\ progress' >= progress
          /\ progress' # progress <=>
                (\E t \in RunTasks : ~Finished(t) /\ Finished(t)')
          /\ progress' # progress => progress' = progress + 1]_vars

\* A run over three targets returned with the counter at three, a
\* FileNotFound among the outcomes.
C15_Witness ==
    /\ pfpc = "returned"
    /\ n = MaxN
    /\ progress = MaxN
    /\ \E i \in 1..Len(results) : ~results[i].ok
    /\ \E i \in 1..Len(results) : results[i].ok

\* ------------------------------------------- claims on a limit of zero
\* C16: max_concurrent = 0 is accepted (-j 0), and process_files called on
\* such a probe with a non-empty list starts no resolution, produces no
\* outcome and never returns: main never gets past the call.
C16_ZeroLimitNeverReturns ==
    /\ (maxc = 0 /\ m_pc = "processing") =>
            /\ n >= 1
            /\ \A t \in RunTasks : pc[t] = "queued"
            /\ Holding = {}
            /\ results = <<>>
            /\ progress = 0
            /\ pfpc = "collecting"
    /\ maxc = 0 => m_pc \notin {"aggregate", "partitioned", "totalled", "exit_ok"}

\* main, run with -j 0 on two files, is inside process_files.
C16_Witness ==
    /\ maxc = 0
    /\ permits = 0
    /\ m_pc = "processing"
    /\ n = 2
    /\ pfpc = "collecting"

\* ------------------------------------------- claims on clones of the probe
Waiting == {t \in Tasks : pc[t] = "pending"}

\* C17: the clones of a probe share its semaphore, so the resolutions in
\* flight, those of the process_files run and those of calls made on other
\* clones together, are never more than max_concurrent; and while no call
\* from outside the run holds a permit, a resolution of the run that reaches
\* semaphore.acquire() finds a permit, the run having started at most
\* max_concurrent futures.
C17_ClonesShareSemaphore ==
    /\ Cardinality(Holding) <= maxc
    /\ Cardinality(InQueue) <= maxc
    /\ (Holding \cap DirectTasks = {}) =>
            (\A t \in Waiting \cap RunTasks : permits > 0)

\* A call on a clone holds one of the two permits and a resolution of the
\* run the other: a second resolution of the run waits at acquire().
C17_Witness ==
    /\ maxc = 2
    /\ permits = 0
    /\ Holding \cap DirectTasks # {}
    /\ Holding \cap RunTasks # {}
    /\ Waiting \cap RunTasks # {}

====
